---- MODULE Spec2Model ----
(***************************************************************************)
(* Model of regicecommon (pkg.py, helpers.py): the resource locator, the   *)
(* plugin registry and the argument/device helpers.                        *)
(*                                                                         *)
(* Strings are sequences of one-character strings, so that split('.'),     *)
(* the 'in' substring test, '{}/{}'.format and re.match are computed on    *)
(* characters as the code computes them.  The library keeps no state of    *)
(* its own: a behaviour is one call, pending at first with its arguments   *)
(* and the environment it reads (installed entry points, importable        *)
(* modules and their bundled resources, the file system), drawn from       *)
(* bounded sets, and run to completion by the action of its operation.     *)
(***************************************************************************)
EXTENDS Naturals, Sequences, FiniteSets, TLC

VARIABLES
    pc,          \* "call": the call is pending; "done": it has completed
    op,          \* the operation called
    env,         \* the environment the call read
    inp,         \* the arguments of the call
    out,         \* what the call returned or raised
    enumerated,  \* how many entry points the call took from iter_entry_points
    loaded,      \* the entry points the call loaded, in order
    called,      \* the hooks the call called, in order
    argparser,   \* the flags of the ArgumentParser the call worked on
    tried,       \* the modules the resource search tried, in order
    streams,     \* the resource streams the call opened
    clients      \* the transport clients the call constructed, in order

vars == <<pc, op, env, inp, out, enumerated, loaded, called, argparser, tried,
          streams, clients>>

(***************************************************************************)
(* Bounds of the model.                                                    *)
(***************************************************************************)
MaxEntryPoints == 2
MaxModules == 3
MaxRequested == 2

(***************************************************************************)
(* Python values.                                                          *)
(***************************************************************************)
None == [some |-> FALSE, v |-> <<>>]
Some(x) == [some |-> TRUE, v |-> x]

\* Python truthiness of an optional string or list: None and empty are falsy.
Truthy(o) == o.some /\ o.v # <<>>

\* All sequences over S of length at most n.
SeqUpTo(S, n) == UNION {[1..k -> S] : k \in 0..n}

\* x in list
InList(x, l) == \E i \in 1..Len(l) : l[i] = x

\* sub in s, for strings
Contains(sub, s) ==
    \E i \in 0..(Len(s) - Len(sub)) :
        \A k \in 1..Len(sub) : s[i + k] = sub[k]

\* s.split(sep)[0]
RECURSIVE SplitFirst(_, _)
SplitFirst(s, sep) ==
    IF s = <<>> \/ Head(s) = sep THEN <<>>
    ELSE <<Head(s)>> \o SplitFirst(Tail(s), sep)

\* s.split(sep), all parts
RECURSIVE Split(_, _)
Split(s, sep) ==
    LET first == SplitFirst(s, sep)
    IN  IF Len(first) = Len(s) THEN <<first>>
        ELSE <<first>> \o Split(SubSeq(s, Len(first) + 2, Len(s)), sep)

\* '{}/{}'.format(path, file)
FormatPath(path, file) == path \o <<"/">> \o file

(***************************************************************************)
(* re.match(pattern, s): the regex subset of literal characters, '.',      *)
(* a postfix '*' on either, and '$'.  The match is anchored at the start   *)
(* of s and may end anywhere in s.                                         *)
(***************************************************************************)
AtomMatch(a, c) == a = "." \/ a = c

RECURSIVE MatchFrom(_, _, _, _)
MatchFrom(p, i, s, j) ==
    IF i > Len(p) THEN TRUE
    ELSE IF i < Len(p) /\ p[i + 1] = "*"
         THEN \/ MatchFrom(p, i + 2, s, j)
              \/ /\ j <= Len(s)
                 /\ AtomMatch(p[i], s[j])
                 /\ MatchFrom(p, i, s, j + 1)
    ELSE IF p[i] = "$" THEN j > Len(s) /\ MatchFrom(p, i + 1, s, j)
    ELSE /\ j <= Len(s)
         /\ AtomMatch(p[i], s[j])
         /\ MatchFrom(p, i + 1, s, j + 1)

re_match(pattern, s) == MatchFrom(pattern, 1, s, 1)

(***************************************************************************)
(* pkg_resources: an installed module is [name, status, tree].  tree maps  *)
(* each directory of the package, as the sequence of names leading to it,  *)
(* to its listing.  status is "ok", or the error its import or listing     *)
(* raises: "OSError" or "DistributionNotFound".                            *)
(***************************************************************************)
\* The components of a resource name: empty components are dropped.
RECURSIVE NonEmpty(_)
NonEmpty(parts) ==
    IF parts = <<>> THEN <<>>
    ELSE IF Head(parts) = <<>> THEN NonEmpty(Tail(parts))
    ELSE <<Head(parts)>> \o NonEmpty(Tail(parts))

Normalize(path) == NonEmpty(Split(path, "/"))

Package(installed, pkg) ==
    installed[CHOOSE i \in 1..Len(installed) :
                /\ installed[i].name = pkg
                /\ \A j \in 1..(i - 1) : installed[j].name # pkg]

resource_listdir(installed, pkg, path) ==
    Package(installed, pkg).tree[Normalize(path)]

resource_isdir(installed, pkg, path) ==
    Normalize(path) \in DOMAIN Package(installed, pkg).tree

(***************************************************************************)
(* pkg.get_resource_list                                                   *)
(***************************************************************************)
RECURSIVE get_resource_list(_, _, _, _)
RECURSIVE ResourceLoop(_, _, _, _, _, _)

\* Variant: the pattern has to match the whole path (re.fullmatch).
ResourceEntryFullMatch(installed, module_name, pattern, new_path) ==
    IF resource_isdir(installed, SplitFirst(module_name, "."), new_path)
    THEN get_resource_list(installed, module_name, new_path, pattern)
    ELSE IF (~pattern.some) \/ re_match(pattern.v \o <<"$">>, new_path)
         THEN <<new_path>>
         ELSE <<>>

\* The body of the for loop for the entry new_path: what it adds to out.
ResourceEntry(installed, module_name, pattern, new_path) ==
    IF resource_isdir(installed, SplitFirst(module_name, "."), new_path)
    THEN get_resource_list(installed, module_name, new_path, pattern)
    ELSE IF (~pattern.some) \/ re_match(pattern.v, new_path)
         THEN <<new_path>>
         ELSE <<>>

\* The for loop of get_resource_list over files[i..].
ResourceLoop(installed, module_name, path, pattern, files, i) ==
    IF i > Len(files) THEN <<>>
    ELSE ResourceEntry(installed, module_name, pattern,
                       FormatPath(path, files[i]))
         \o ResourceLoop(installed, module_name, path, pattern, files, i + 1)

get_resource_list(installed, module_name, path, pattern) ==
    ResourceLoop(installed, module_name, path, pattern,
                 resource_listdir(installed, SplitFirst(module_name, "."), path),
                 1)

(***************************************************************************)
(* Exceptions.  FileNotFoundError and PermissionError are subclasses of    *)
(* OSError; DistributionNotFound, ParseError (a malformed document) and    *)
(* UnboundLocalError are not.                                              *)
(***************************************************************************)
IsOSError(exc) == exc \in {"OSError", "FileNotFoundError", "PermissionError"}

Raise(exc) == [kind |-> "raise", exc |-> exc, pkg |-> <<>>, path |-> <<>>]

\* resource_stream(pkg, path): an open byte stream on a resource.
resource_stream(pkg, path) ==
    [kind |-> "return", exc |-> "", pkg |-> pkg, path |-> path]

(***************************************************************************)
(* pkg.open_resource.  The result is [ret, tried, streams]: what the call  *)
(* returns or raises, the module names it called itself with, and the      *)
(* streams it opened.                                                      *)
(***************************************************************************)
\* 'regice' in name or 'Regice' in name
RegiceLike(name) ==
    \/ Contains(<<"r", "e", "g", "i", "c", "e">>, name)
    \/ Contains(<<"R", "e", "g", "i", "c", "e">>, name)

\* Variant: the last match is opened.
OpenLast(pkg, files) ==
    IF files = <<>> THEN Raise("OSError")
    ELSE resource_stream(pkg, files[Len(files)])

\* The end of open_resource, files being the list get_resource_list gave.
OpenFirst(pkg, files) ==
    IF files = <<>> THEN Raise("OSError")
    ELSE resource_stream(pkg, files[1])

\* The part of open_resource after the search: module_name is set.  A
\* package that cannot be imported or listed raises its error from the
\* listing.
OpenNamed(installed, module_name, fname) ==
    IF Package(installed, SplitFirst(module_name, ".")).status # "ok"
    THEN Raise(Package(installed, SplitFirst(module_name, ".")).status)
    ELSE OpenFirst(SplitFirst(module_name, "."),
                   get_resource_list(installed, module_name, <<"/">>,
                                     Some(<<".", "*">> \o fname)))

\* The for loop over iter_modules() from its i-th module on.
RECURSIVE SearchLoop(_, _, _, _)

\* Variant: only OSError is caught.
SearchTryOSErrorOnly(installed, fname, i, now, r) ==
    IF r.kind = "return"
    THEN [ret |-> r, tried |-> now, streams |-> <<r>>]
    ELSE IF IsOSError(r.exc)
    THEN SearchLoop(installed, fname, i + 1, now)
    ELSE [ret |-> r, tried |-> now, streams |-> <<>>]

\* The try statement for the candidate installed[i], r being what
\* open_resource(name, fname) returns or raises.
SearchTry(installed, fname, i, now, r) ==
    IF r.kind = "return"
    THEN [ret |-> r, tried |-> now, streams |-> <<r>>]
    ELSE IF IsOSError(r.exc)
    THEN SearchLoop(installed, fname, i + 1, now)
    ELSE IF r.exc = "DistributionNotFound"
    THEN SearchLoop(installed, fname, i + 1, now)
    ELSE [ret |-> r, tried |-> now, streams |-> <<>>]

SearchLoop(installed, fname, i, tried_so_far) ==
    IF i > Len(installed)
    THEN [ret |-> Raise("OSError"), tried |-> tried_so_far, streams |-> <<>>]
    ELSE IF RegiceLike(installed[i].name)
         THEN SearchTry(installed, fname, i,
                        Append(tried_so_far, installed[i].name),
                        OpenNamed(installed, installed[i].name, fname))
         ELSE SearchLoop(installed, fname, i + 1, tried_so_far)

\* What a call that searched nothing did, r being what it returns or raises.
Direct(r) ==
    [ret |-> r, tried |-> <<>>,
     streams |-> IF r.kind = "return" THEN <<r>> ELSE <<>>]

open_resource(installed, module_name, fname) ==
    IF ~Truthy(module_name)
    THEN SearchLoop(installed, fname, 1, <<>>)
    ELSE Direct(OpenNamed(installed, module_name.v, fname))

(***************************************************************************)
(* Entry points of the 'regice' namespace, in iter_entry_points order.     *)
(* An entry point is [name, module_name, accepts]: the hook name, the      *)
(* dotted name of the declaring module, and, for a predicate, the names    *)
(* it is true of.  A hook is identified by its position in the             *)
(* enumeration.                                                            *)
(***************************************************************************)
\* What the init_args hook of entry point e does to the parser: it adds
\* the flags of its module.
init_args(e, parser) ==
    Append(parser, [by |-> e.module_name, flag |-> "plugin"])

\* The predicate of entry point e.
is_compatible_with(e, name) == name \in e.accepts

\* Variant: the top-level package is imported.
import_top_level(e) == Some(SplitFirst(e.module_name, "."))

\* importlib.import_module(entrypoint.module_name): the module of that name.
import_module(e) == Some(e.module_name)

(***************************************************************************)
(* pkg.init_modules_args.  The result is the parser with the hooks that    *)
(* were loaded and called and the number of entry points enumerated.       *)
(***************************************************************************)
\* Variant: the hook is matched on the full dotted name of its module.
SelectedFullName(e, modules) ==
    e.name = "init_args" /\ InList(e.module_name, modules)

Selected(e, modules) ==
    LET module_name == SplitFirst(e.module_name, ".")
    IN  e.name = "init_args" /\ InList(module_name, modules)

RECURSIVE InitArgsLoop(_, _, _, _)
InitArgsLoop(eps, i, modules, acc) ==
    IF i > Len(eps) THEN acc
    ELSE IF Selected(eps[i], modules)
         THEN InitArgsLoop(eps, i + 1, modules,
                  [parser |-> init_args(eps[i], acc.parser),
                   loaded |-> Append(acc.loaded, i),
                   called |-> Append(acc.called, i),
                   enumerated |-> i])
         ELSE InitArgsLoop(eps, i + 1, modules, [acc EXCEPT !.enumerated = i])

\* Variant: only a module list of None returns early.
init_modules_args_none_only(eps, parser, modules) ==
    IF ~modules.some
    THEN [parser |-> parser, loaded |-> <<>>, called |-> <<>>, enumerated |-> 0]
    ELSE InitArgsLoop(eps, 1, modules.v,
             [parser |-> parser, loaded |-> <<>>, called |-> <<>>,
              enumerated |-> 0])

init_modules_args(eps, parser, modules) ==
    LET start == [parser |-> parser, loaded |-> <<>>, called |-> <<>>,
                  enumerated |-> 0]
    IN  IF ~Truthy(modules) THEN start
        ELSE InitArgsLoop(eps, 1, modules.v, start)

(***************************************************************************)
(* pkg.get_compatible_module.  ret is the name of the imported module, or  *)
(* None.                                                                   *)
(***************************************************************************)
RECURSIVE CompatLoop(_, _, _, _)
CompatLoop(eps, i, name, acc) ==
    IF i > Len(eps) THEN [acc EXCEPT !.ret = None]
    ELSE IF eps[i].name = "is_compatible_with"
         THEN LET now == [acc EXCEPT !.loaded = Append(@, i),
                                     !.called = Append(@, i),
                                     !.enumerated = i]
              IN  IF is_compatible_with(eps[i], name)
                  THEN [now EXCEPT !.ret = import_module(eps[i])]
                  ELSE CompatLoop(eps, i + 1, name, now)
         ELSE CompatLoop(eps, i + 1, name, [acc EXCEPT !.enumerated = i])

get_compatible_module(eps, name) ==
    CompatLoop(eps, 1, name,
               [ret |-> None, loaded |-> <<>>, called |-> <<>>, enumerated |-> 0])

(***************************************************************************)
(* helpers.regice_add_arguments and helpers.init_argument_parser           *)
(***************************************************************************)
regicecommon == <<"r", "e", "g", "i", "c", "e", "c", "o", "m", "m", "o", "n">>

CommonFlags == <<"--svd", "--openocd", "--jlink", "--jlink-script",
                 "--jlink-device", "--test">>

regice_add_arguments(parser) ==
    parser \o [i \in 1..Len(CommonFlags) |->
                  [by |-> regicecommon, flag |-> CommonFlags[i]]]

\* ArgumentParser()
ArgumentParser == <<>>

\* Variant: 'libregice' is appended to the requested module list.
init_argument_parser_libregice(eps, modules) ==
    init_modules_args(eps, regice_add_arguments(ArgumentParser),
                      Some(modules.v \o <<<<"l", "i", "b", "r", "e", "g", "i", "c", "e">>>>))

init_argument_parser(eps, modules) ==
    init_modules_args(eps, regice_add_arguments(ArgumentParser), modules)

(***************************************************************************)
(* helpers.load_svd.  disk is what the file system holds under the name:   *)
(* "absent" (os.path.exists is false), "ok", or the error that reading it  *)
(* raises; parse is "ok" or the error that svd.parse() raises.  The result *)
(* is [ret, tried, streams], ret being the parsed model (where it was      *)
(* read from) or the exception.                                            *)
(***************************************************************************)
RaiseSvd(exc) ==
    [kind |-> "raise", exc |-> exc, from |-> "", pkg |-> <<>>, path |-> <<>>]

\* SVD(file)
SVD(file) ==
    [kind |-> "return", exc |-> "", from |-> "path", pkg |-> <<>>, path |-> file]

\* SVDText(stream.read())
SVDText(stream) ==
    [kind |-> "return", exc |-> "", from |-> "resource",
     pkg |-> stream.pkg, path |-> stream.path]

\* svd.parse()
Parse(parse, svd) ==
    IF svd.kind = "raise" THEN svd
    ELSE IF parse = "ok" THEN svd
    ELSE RaiseSvd(parse)

\* The else branch of the try statement, found being what
\* open_resource(None, file) did.
FromResource(parse, found) ==
    [ret |-> Parse(parse, IF found.ret.kind = "return"
                          THEN SVDText(found.ret)
                          ELSE RaiseSvd(found.ret.exc)),
     tried |-> found.tried,
     streams |-> found.streams]

\* The body of the try statement.
LoadSvdTry(installed, disk, parse, file) ==
    IF disk # "absent"
    THEN [ret |-> Parse(parse, IF disk = "ok" THEN SVD(file) ELSE RaiseSvd(disk)),
          tried |-> <<>>, streams |-> <<>>]
    ELSE FromResource(parse, open_resource(installed, None, file))

\* Variant: no except clause.
ExceptNothing(r) == r

\* except OSError: raise FileNotFoundError
ExceptOSError(r) ==
    IF r.ret.kind = "raise" /\ IsOSError(r.ret.exc)
    THEN [r EXCEPT !.ret = RaiseSvd("FileNotFoundError")]
    ELSE r

load_svd(installed, disk, parse, file) ==
    ExceptOSError(LoadSvdTry(installed, disk, parse, file))

(***************************************************************************)
(* helpers.init_regice.  args is [openocd, jlink, test, svd].  The result  *)
(* is [ret, clients, tried, streams]: ret.client is the client passed to   *)
(* Regice, clients the clients constructed.                                *)
(***************************************************************************)
Unbound == "unbound"

\* Variant: an if / elif chain, the first set flag wins.
SelectClientElif(args) ==
    IF args.openocd
    THEN [client |-> "RegiceOpenOCD", clients |-> <<"RegiceOpenOCD">>]
    ELSE IF args.jlink
    THEN [client |-> "RegiceJLink", clients |-> <<"RegiceJLink">>]
    ELSE IF args.test
    THEN [client |-> "RegiceClientTest", clients |-> <<"RegiceClientTest">>]
    ELSE [client |-> Unbound, clients |-> <<>>]

\* The three if statements: the client bound at the end, and the clients
\* constructed on the way.
SelectClient(args) ==
    LET c0 == [client |-> Unbound, clients |-> <<>>]
        c1 == IF args.openocd
              THEN [client |-> "RegiceOpenOCD",
                    clients |-> Append(c0.clients, "RegiceOpenOCD")]
              ELSE c0
        c2 == IF args.jlink
              THEN [client |-> "RegiceJLink",
                    clients |-> Append(c1.clients, "RegiceJLink")]
              ELSE c1
        c3 == IF args.test
              THEN [client |-> "RegiceClientTest",
                    clients |-> Append(c2.clients, "RegiceClientTest")]
              ELSE c2
    IN  c3

\* The end of init_regice: sel is the outcome of the three if statements,
\* svd what load_svd(args.svd) did.
NewRegice(sel, svd) ==
    [ret |-> IF svd.ret.kind = "raise"
             THEN [kind |-> "raise", exc |-> svd.ret.exc,
                   client |-> "", svd |-> svd.ret]
             ELSE IF sel.client = Unbound
             THEN [kind |-> "raise", exc |-> "UnboundLocalError",
                   client |-> "", svd |-> svd.ret]
             ELSE [kind |-> "return", exc |-> "",
                   client |-> sel.client, svd |-> svd.ret],
     clients |-> sel.clients,
     tried |-> svd.tried,
     streams |-> svd.streams]

init_regice(installed, disk, parse, args) ==
    NewRegice(SelectClient(args), load_svd(installed, disk, parse, args.svd))

(***************************************************************************)
(* process_modules_args and process_arguments, after the specification     *)
(* (sections 4.2 and 4.3).  A process_args hook returns the mapping        *)
(* 'result' of its entry point.  argv is [unknown, help_device]: whether   *)
(* the command line holds arguments the parser does not know, and whether  *)
(* --help-device is set.                                                   *)
(***************************************************************************)
NoDevice == "None"

libregice == <<"l", "i", "b", "r", "e", "g", "i", "c", "e">>

RECURSIVE ProcessArgsLoop(_, _, _, _)
ProcessArgsLoop(eps, i, modules, acc) ==
    IF i > Len(eps) THEN acc
    ELSE IF /\ eps[i].name = "process_args"
            /\ InList(SplitFirst(eps[i].module_name, "."), modules)
         THEN ProcessArgsLoop(eps, i + 1, modules,
                  [results |-> eps[i].result @@ acc.results,
                   called |-> Append(acc.called, i)])
         ELSE ProcessArgsLoop(eps, i + 1, modules, acc)

process_modules_args(eps, modules) ==
    ProcessArgsLoop(eps, 1, modules, [results |-> <<>>, called |-> <<>>])

\* Variant: the requested modules are processed before the bootstrap pass.
process_arguments_requested_first(eps, modules, device, argv) ==
    LET boot == process_modules_args(eps, <<libregice>>)
        rest == process_modules_args(eps, modules)
    IN  IF device = NoDevice /\ "device" \in DOMAIN (boot.results @@ rest.results)
        THEN [kind |-> "return", exc |-> "",
              device |-> (boot.results @@ rest.results)["device"],
              results |-> boot.results @@ rest.results,
              called |-> rest.called \o boot.called]
        ELSE [kind |-> "raise", exc |-> "KeyError", device |-> NoDevice,
              results |-> <<>>, called |-> <<>>]

process_arguments(eps, modules, device, argv) ==
    LET boot == IF device = NoDevice
                THEN process_modules_args(eps, <<libregice>>)
                ELSE [results |-> <<>>, called |-> <<>>]
        rest == process_modules_args(eps, modules)
        fail(exc, done) == [kind |-> "raise", exc |-> exc, device |-> NoDevice,
                            results |-> <<>>, called |-> done]
    IN  IF device = NoDevice
        THEN IF "device" \notin DOMAIN boot.results
             THEN fail("KeyError", boot.called)
             ELSE [kind |-> "return", exc |-> "",
                   device |-> boot.results["device"],
                   results |-> rest.results @@ boot.results,
                   called |-> boot.called \o rest.called]
        ELSE IF argv.unknown THEN fail("SystemExit", <<>>)
        ELSE IF argv.help_device THEN fail("SystemExit", <<>>)
        ELSE [kind |-> "return", exc |-> "", device |-> device,
              results |-> rest.results, called |-> rest.called]

(***************************************************************************)
(* The inputs of the calls.                                                *)
(***************************************************************************)
foo == <<"f", "o", "o">>
foo_cli == <<"f", "o", "o", ".", "c", "l", "i">>
fo == <<"f", "o">>

EntryPoint(name, module_name, accepts, result) ==
    [name |-> name, module_name |-> module_name, accepts |-> accepts,
     result |-> result]

\* Entry points for the argument hooks: init_args hooks, and hooks of
\* another name.
ArgEntryPoints ==
    {EntryPoint("init_args", m, {}, <<>>) : m \in {foo, foo_cli, fo, libregice}}
    \cup {EntryPoint("process_args", m, {}, <<>>) : m \in {foo, libregice}}

\* Entry points for the compatibility scan.
CompatEntryPoints ==
    {EntryPoint("is_compatible_with", m, acc, <<>>) :
        m \in {foo, foo_cli, libregice}, acc \in {{}, {"stm32"}}}
    \cup {EntryPoint("init_args", foo, {}, <<>>)}

\* Entry points for the processing of arguments.
ProcessEntryPoints ==
    {EntryPoint("process_args", foo, {}, r) :
        r \in {<<>>, [device |-> "devF", a |-> "x"]}}
    \cup {EntryPoint("process_args", libregice, {}, r) :
        r \in {<<>>, [device |-> "devA"], [device |-> "devB", a |-> "y"]}}
    \cup {EntryPoint("init_args", libregice, {}, <<>>)}

\* The requested module lists: None, and lists of names.
ModuleLists ==
    {None} \cup {Some(l) : l \in SeqUpTo({foo, fo, libregice}, MaxRequested)}

\* Resource names.
file_a == <<"a">>
file_b == <<"b">>
file_ab == <<"a", "b">>
dir_d == <<"d">>

\* The resource trees of a package.
Trees ==
    { (<<>> :> <<>>),
      (<<>> :> <<file_ab>>),
      (<<>> :> <<file_b, dir_d, file_a>>) @@ (<<dir_d>> :> <<file_a, file_ab>>),
      (<<>> :> <<dir_d, file_a>>) @@ (<<dir_d>> :> <<dir_d>>)
          @@ (<<dir_d, dir_d>> :> <<file_b>>) }

\* Importable top-level modules.
ModuleNames ==
    { libregice,
      <<"R", "e", "g", "i", "c", "e">>,
      <<"R", "E", "G", "I", "C", "E">> }

\* Packages whose resources can be listed.
Packages(trees) ==
    {[name |-> n, status |-> "ok", tree |-> t] : n \in ModuleNames, t \in trees}

\* The modules a resource search meets: packages, and modules whose import
\* or listing fails.
Modules ==
    Packages({t \in Trees : Len(t[<<>>]) \in {1, 3}})
    \cup {[name |-> n, status |-> e, tree |-> (<<>> :> <<>>)] :
            n \in ModuleNames, e \in {"OSError", "DistributionNotFound"}}

\* iter_modules(): the modules of a list have distinct names.
DistinctNames(l) == \A i, j \in 1..Len(l) : i # j => l[i].name # l[j].name

\* File names asked for; each is used as a regular expression.
FileNames ==
    { <<"a">>, <<"a", "b">>, <<"b", "$">>, <<"c">>, <<"d", "/", ".">> }

\* Patterns given to get_resource_list.
Patterns ==
    {None} \cup
    {Some(p) : p \in { <<>>, <<".", "*", "a">>, <<".", "*", "b", "$">>,
                       <<"/", "/", "a">>, <<"/", "d">>, <<"a">>,
                       <<"/", "*", "d", "/", ".">> }}

\* Root paths given to get_resource_list.
RootPaths ==
    { <<>>, <<"/">>, <<"/", "d">>, <<"/", "/", "d">>, <<"/", "d", "/", "d">> }

Env(eps, installed, disk, parse) ==
    [eps |-> eps, installed |-> installed, disk |-> disk, parse |-> parse]

Returned == [kind |-> "return", exc |-> ""]

(***************************************************************************)
(* The calls of the library: the operation, the environment it reads and   *)
(* its arguments.                                                          *)
(***************************************************************************)
Call(o, e, i) == op = o /\ env = e /\ inp = i

InitModulesArgsCalls ==
    \E eps \in SeqUpTo(ArgEntryPoints, MaxEntryPoints), modules \in ModuleLists :
        Call("init_modules_args", Env(eps, <<>>, "absent", "ok"),
             [parser |-> ArgumentParser, modules |-> modules])

InitArgumentParserCalls ==
    \E eps \in SeqUpTo(ArgEntryPoints, MaxEntryPoints), modules \in ModuleLists :
        Call("init_argument_parser", Env(eps, <<>>, "absent", "ok"),
             [modules |-> modules])

GetCompatibleModuleCalls ==
    \E eps \in SeqUpTo(CompatEntryPoints, MaxEntryPoints),
       name \in {"stm32", "imx"} :
        Call("get_compatible_module", Env(eps, <<>>, "absent", "ok"),
             [name |-> name])

\* get_resource_list is called on a package whose resources can be listed
\* and on a directory of it.
GetResourceListCalls ==
    \E m \in Packages(Trees), sub \in {<<>>, <<".", "s">>},
       path \in RootPaths, pattern \in Patterns :
        /\ Normalize(path) \in DOMAIN m.tree
        /\ Call("get_resource_list", Env(<<>>, <<m>>, "absent", "ok"),
                [module_name |-> m.name \o sub, path |-> path,
                 pattern |-> pattern])

\* The module names open_resource is called with: None, the empty string,
\* and the installed modules and their submodules.
ModuleNameArgs(installed) ==
    {None, Some(<<>>)}
    \cup {Some(installed[i].name \o sub) :
            i \in 1..Len(installed), sub \in {<<>>, <<".", "s">>}}

OpenResourceCalls ==
    \E installed \in SeqUpTo(Modules, MaxModules), fname \in FileNames :
        /\ DistinctNames(installed)
        /\ \E module_name \in ModuleNameArgs(installed) :
            Call("open_resource", Env(<<>>, installed, "absent", "ok"),
                 [module_name |-> module_name, fname |-> fname])

Disks == {"absent", "ok", "PermissionError"}
Parses == {"ok", "OSError", "ParseError"}

LoadSvdCalls ==
    \E installed \in SeqUpTo(Modules, MaxModules - 1), file \in FileNames,
       disk \in Disks, parse \in Parses :
        /\ DistinctNames(installed)
        /\ Call("load_svd", Env(<<>>, installed, disk, parse), [file |-> file])

InitRegiceCalls ==
    \E installed \in SeqUpTo(Modules, MaxModules - 2),
       file \in {<<"a">>, <<"c">>}, disk \in Disks, parse \in Parses,
       openocd \in BOOLEAN, jlink \in BOOLEAN, test \in BOOLEAN :
        /\ DistinctNames(installed)
        /\ Call("init_regice", Env(<<>>, installed, disk, parse),
                [args |-> [openocd |-> openocd, jlink |-> jlink, test |-> test,
                           svd |-> file]])

\* Without a device the parse is tolerant and --help-device is no flag of
\* the parser.
ProcessArgumentsCalls ==
    \E eps \in SeqUpTo(ProcessEntryPoints, MaxEntryPoints),
       modules \in SeqUpTo({foo, libregice}, MaxRequested),
       device \in {NoDevice, "devC"},
       unknown \in BOOLEAN, help_device \in BOOLEAN :
        /\ device = NoDevice => ~help_device
        /\ Call("process_arguments", Env(eps, <<>>, "absent", "ok"),
                [modules |-> modules, device |-> device,
                 argv |-> [unknown |-> unknown, help_device |-> help_device]])

(***************************************************************************)
(* The state machine: a call is pending with its environment and           *)
(* arguments; the step of its operation runs it to completion.             *)
(***************************************************************************)
Init ==
    /\ pc = "call"
    /\ \/ InitModulesArgsCalls
       \/ InitArgumentParserCalls
       \/ GetCompatibleModuleCalls
       \/ GetResourceListCalls
       \/ OpenResourceCalls
       \/ LoadSvdCalls
       \/ InitRegiceCalls
       \/ ProcessArgumentsCalls
    /\ out = Returned
    /\ enumerated = 0
    /\ loaded = <<>>
    /\ called = <<>>
    /\ argparser = <<>>
    /\ tried = <<>>
    /\ streams = <<>>
    /\ clients = <<>>

Pending(o) == pc = "call" /\ op = o

Done == pc' = "done" /\ UNCHANGED <<op, env, inp>>

InitModulesArgs ==
    /\ Pending("init_modules_args")
    /\ LET r == init_modules_args(env.eps, inp.parser, inp.modules)
       IN  /\ out' = Returned
           /\ enumerated' = r.enumerated
           /\ loaded' = r.loaded
           /\ called' = r.called
           /\ argparser' = r.parser
    /\ Done
    /\ UNCHANGED <<tried, streams, clients>>

InitArgumentParser ==
    /\ Pending("init_argument_parser")
    /\ LET r == init_argument_parser(env.eps, inp.modules)
       IN  /\ out' = Returned
           /\ enumerated' = r.enumerated
           /\ loaded' = r.loaded
           /\ called' = r.called
           /\ argparser' = r.parser
    /\ Done
    /\ UNCHANGED <<tried, streams, clients>>

GetCompatibleModule ==
    /\ Pending("get_compatible_module")
    /\ LET r == get_compatible_module(env.eps, inp.name)
       IN  /\ out' = [kind |-> "return", exc |-> "", module |-> r.ret]
           /\ enumerated' = r.enumerated
           /\ loaded' = r.loaded
           /\ called' = r.called
    /\ Done
    /\ UNCHANGED <<argparser, tried, streams, clients>>

GetResourceList ==
    /\ Pending("get_resource_list")
    /\ out' = [kind |-> "return", exc |-> "",
               list |-> get_resource_list(env.installed, inp.module_name,
                                          inp.path, inp.pattern)]
    /\ Done
    /\ UNCHANGED <<enumerated, loaded, called, argparser, tried, streams,
                   clients>>

OpenResource ==
    /\ Pending("open_resource")
    /\ LET r == open_resource(env.installed, inp.module_name, inp.fname)
       IN  /\ out' = r.ret
           /\ tried' = r.tried
           /\ streams' = r.streams
    /\ Done
    /\ UNCHANGED <<enumerated, loaded, called, argparser, clients>>

LoadSvd ==
    /\ Pending("load_svd")
    /\ LET r == load_svd(env.installed, env.disk, env.parse, inp.file)
       IN  /\ out' = r.ret
           /\ tried' = r.tried
           /\ streams' = r.streams
    /\ Done
    /\ UNCHANGED <<enumerated, loaded, called, argparser, clients>>

InitRegice ==
    /\ Pending("init_regice")
    /\ LET r == init_regice(env.installed, env.disk, env.parse, inp.args)
       IN  /\ out' = r.ret
           /\ tried' = r.tried
           /\ streams' = r.streams
           /\ clients' = r.clients
    /\ Done
    /\ UNCHANGED <<enumerated, loaded, called, argparser>>

ProcessArguments ==
    /\ Pending("process_arguments")
    /\ LET r == process_arguments(env.eps, inp.modules, inp.device, inp.argv)
       IN  /\ out' = [kind |-> r.kind, exc |-> r.exc, device |-> r.device,
                      results |-> r.results]
           /\ loaded' = r.called
           /\ called' = r.called
    /\ Done
    /\ UNCHANGED <<enumerated, argparser, tried, streams, clients>>

Next ==
    \/ InitModulesArgs
    \/ InitArgumentParser
    \/ GetCompatibleModule
    \/ GetResourceList
    \/ OpenResource
    \/ LoadSvd
    \/ InitRegice
    \/ ProcessArguments

Spec == Init /\ [][Next]_vars

(***************************************************************************)
(* Properties.  They are stated on the completed call, in terms of its     *)
(* environment, its arguments and what it did.                             *)
(***************************************************************************)
Completed(o) == pc = "done" /\ op = o

\* seg is the first dot-separated segment of the dotted name s.
IsFirstSegment(seg, s) ==
    /\ \A k \in 1..Len(seg) : seg[k] # "."
    /\ Len(seg) <= Len(s)
    /\ \A k \in 1..Len(seg) : s[k] = seg[k]
    /\ Len(s) > Len(seg) => s[Len(seg) + 1] = "."

\* The module declaring entry point e belongs to a package of the list.
DeclaredIn(e, list) ==
    \E k \in 1..Len(list) : IsFirstSegment(list[k], e.module_name)

\* s lists, in increasing order, exactly the numbers of the set.
ListsInOrder(s, set) ==
    /\ \A k \in 1..Len(s) : s[k] \in set
    /\ \A n \in set : InList(n, s)
    /\ \A j, k \in 1..Len(s) : j < k => s[j] < s[k]

\* The init_args hooks of the packages of a list.
HooksOf(list) ==
    {i \in 1..Len(env.eps) :
        env.eps[i].name = "init_args" /\ DeclaredIn(env.eps[i], list)}

\* C1: init_modules_args with a non-empty module list M loads and calls a
\* hook if and only if its entry point is named 'init_args' and the first
\* dot-separated segment of its declaring module is in M; every such hook is
\* called once, in enumeration order, and adds its flags to the parser.
C1_OnlyRequestedInitArgs ==
    (Completed("init_modules_args") /\ Truthy(inp.modules)) =>
        /\ ListsInOrder(called, HooksOf(inp.modules.v))
        /\ loaded = called
        /\ Len(argparser) = Len(inp.parser) + Len(called)
        /\ \A k \in 1..Len(called) :
              argparser[Len(inp.parser) + k].by = env.eps[called[k]].module_name

\* A call that ran the hook of a submodule of a requested package and left
\* out the init_args hook of a package that was not requested.
C1_Witness ==
    /\ Completed("init_modules_args")
    /\ Truthy(inp.modules)
    /\ Len(env.eps) = 2
    /\ called # <<>>
    /\ \E k \in 1..Len(called) :
          ~InList(env.eps[called[k]].module_name, inp.modules.v)
    /\ \E i \in 1..Len(env.eps) :
          /\ ~InList(i, called)
          /\ env.eps[i].name = "init_args"

\* C2: init_modules_args with an empty or None module list enumerates no
\* entry point, loads and calls no hook and leaves the parser as it was.
C2_EmptyModulesNoOp ==
    (Completed("init_modules_args") /\ ~Truthy(inp.modules)) =>
        /\ enumerated = 0
        /\ loaded = <<>>
        /\ called = <<>>
        /\ argparser = inp.parser

\* A call with the empty list while init_args hooks are installed.
C2_Witness ==
    /\ Completed("init_modules_args")
    /\ inp.modules = Some(<<>>)
    /\ \E i \in 1..Len(env.eps) : env.eps[i].name = "init_args"

\* C3, as claimed: for every requested module list, init_argument_parser
\* runs the init_args hooks of the libregice package.
C3_LibregiceAlwaysRun ==
    Completed("init_argument_parser") =>
        \A i \in 1..Len(env.eps) :
            (/\ env.eps[i].name = "init_args"
             /\ IsFirstSegment(libregice, env.eps[i].module_name))
                => InList(i, called)

\* C3, amended: init_argument_parser adds the six common flags to a fresh
\* parser and hands the requested module list unchanged to
\* init_modules_args: the hooks run are those of the requested packages, so
\* the libregice hook runs only if 'libregice' was requested, and no hook
\* runs for an empty or None list.
C3_RequestedListUnchanged ==
    Completed("init_argument_parser") =>
        /\ Len(argparser) = Len(CommonFlags) + Len(called)
        /\ \A k \in 1..Len(CommonFlags) :
              argparser[k] = [by |-> regicecommon, flag |-> CommonFlags[k]]
        /\ loaded = called
        /\ ListsInOrder(called,
               IF Truthy(inp.modules) THEN HooksOf(inp.modules.v) ELSE {})
        /\ \A k \in 1..Len(called) :
              argparser[Len(CommonFlags) + k].by = env.eps[called[k]].module_name

\* A call with a non-empty list without 'libregice' while the libregice
\* hook is installed: the hook of the requested package ran, that of
\* libregice did not.
C3_Witness ==
    /\ Completed("init_argument_parser")
    /\ Truthy(inp.modules)
    /\ ~InList(libregice, inp.modules.v)
    /\ called # <<>>
    /\ \E i \in 1..Len(env.eps) :
          /\ env.eps[i].name = "init_args"
          /\ env.eps[i].module_name = libregice
          /\ ~InList(i, called)

\* The predicates among the entry points, and those true of the name.
Predicates == {i \in 1..Len(env.eps) : env.eps[i].name = "is_compatible_with"}
TruePredicates == {i \in Predicates : inp.name \in env.eps[i].accepts}

\* C8: get_compatible_module loads and calls only entry points named
\* 'is_compatible_with', in enumeration order; it returns the declaring
\* module of the first whose predicate is true, calling none after it, and
\* returns None if and only if no predicate is true.
C8_FirstCompatibleModule ==
    Completed("get_compatible_module") =>
        /\ loaded = called
        /\ (~out.module.some) <=> (TruePredicates = {})
        /\ TruePredicates = {} => ListsInOrder(called, Predicates)
        /\ TruePredicates # {} =>
              \E m \in TruePredicates :
                  /\ \A n \in TruePredicates : m <= n
                  /\ out.module = Some(env.eps[m].module_name)
                  /\ ListsInOrder(called, {i \in Predicates : i <= m})

\* A call with two true predicates: the first, declared by a submodule, is
\* returned and the second is not called.
C8_Witness ==
    /\ Completed("get_compatible_module")
    /\ Cardinality(TruePredicates) = 2
    /\ Len(called) = 1
    /\ out.module.some
    /\ \E k \in 1..Len(out.module.v) : out.module.v[k] = "."

(***************************************************************************)
(* The resources of a package, read off its tree.                          *)
(***************************************************************************)
MaxDepth == 3

ResourceNames == {file_a, file_b, file_ab, dir_d}

\* Relative paths, as sequences of names.
RelPaths == UNION {[1..k -> ResourceNames] : k \in 1..MaxDepth}

\* rel leads from the directory root to a file of the tree.
IsFileUnder(tree, root, rel) ==
    /\ \A m \in 0..(Len(rel) - 1) :
          /\ (root \o SubSeq(rel, 1, m)) \in DOMAIN tree
          /\ InList(rel[m + 1], tree[root \o SubSeq(rel, 1, m)])
    /\ (root \o rel) \notin DOMAIN tree

\* The path built for rel from the path given for the root.
RECURSIVE Built(_, _)
Built(path, rel) ==
    IF rel = <<>> THEN path
    ELSE Built(path \o <<"/">> \o Head(rel), Tail(rel))

PositionIn(x, l) == CHOOSE i \in 1..Len(l) : l[i] = x

\* r1 comes before r2 in the listing order with directories inlined: where
\* they part, the name of r1 is listed first.
ListedBefore(tree, root, r1, r2) ==
    \E m \in 1..Len(r1) :
        /\ m <= Len(r2)
        /\ \A k \in 1..(m - 1) : r1[k] = r2[k]
        /\ r1[m] # r2[m]
        /\ PositionIn(r1[m], tree[root \o SubSeq(r1, 1, m - 1)])
             < PositionIn(r2[m], tree[root \o SubSeq(r2, 1, m - 1)])

\* The files under the root whose built path the pattern accepts.
Wanted(tree, root, path, pattern) ==
    {rel \in RelPaths :
        /\ IsFileUnder(tree, root, rel)
        /\ (~pattern.some) \/ re_match(pattern.v, Built(path, rel))}

\* C4: get_resource_list returns exactly the files reachable from the root
\* whose built path matches the pattern from the start of the string (every
\* file when the pattern is None), each once, never a directory, in listing
\* order with the content of a directory at the place of the directory.
C4_ResourceList ==
    Completed("get_resource_list") =>
        LET tree == env.installed[1].tree
            root == Normalize(inp.path)
            want == Wanted(tree, root, inp.path, inp.pattern)
        IN  /\ Len(out.list) = Cardinality(want)
            /\ \A rel \in want : InList(Built(inp.path, rel), out.list)
            /\ \A j, k \in 1..Len(out.list) :
                  j < k =>
                      \E r1, r2 \in want :
                          /\ out.list[j] = Built(inp.path, r1)
                          /\ out.list[k] = Built(inp.path, r2)
                          /\ ListedBefore(tree, root, r1, r2)

\* A listing with a pattern that holds a file of a subdirectory before a
\* file of the root, holds a path the pattern matches only in part, and
\* leaves a file out.
C4_Witness ==
    /\ Completed("get_resource_list")
    /\ inp.pattern.some
    /\ \E j, k \in 1..Len(out.list) :
          /\ j < k
          /\ Len(out.list[j]) > Len(out.list[k])
    /\ \E k \in 1..Len(out.list) :
          ~re_match(inp.pattern.v \o <<"$">>, out.list[k])
    /\ Len(out.list) < Cardinality(Wanted(env.installed[1].tree,
                                          Normalize(inp.path), inp.path, None))

(***************************************************************************)
(* The resource a package holds for a file name.                           *)
(***************************************************************************)
\* The installed module that is the package of the dotted name.
PackageOf(module_name) ==
    CHOOSE i \in 1..Len(env.installed) :
        IsFirstSegment(env.installed[i].name, module_name)

\* All files of installed[i], in get_resource_list order.
FilesOf(i) ==
    get_resource_list(env.installed, env.installed[i].name, <<"/">>, None)

\* The positions in FilesOf(i) of the files matching '.*' + fname.
MatchesOf(i, fname) ==
    {k \in 1..Len(FilesOf(i)) : re_match(<<".", "*">> \o fname, FilesOf(i)[k])}

FirstMatchOf(i, fname) ==
    FilesOf(i)[CHOOSE k \in MatchesOf(i, fname) :
                  \A n \in MatchesOf(i, fname) : k <= n]

Listable(i) == env.installed[i].status = "ok"

\* C5: open_resource with a module name fails with OSError and opens no
\* stream when no resource of the package matches '.*' + fname; otherwise
\* it opens one stream, on the first matching path in get_resource_list
\* order, from the package named by the first segment of the module name.
\* A package that cannot be listed raises its error and opens no stream.
C5_OpenNamedResource ==
    (Completed("open_resource") /\ Truthy(inp.module_name)) =>
        LET i == PackageOf(inp.module_name.v)
        IN  /\ tried = <<>>
            /\ ~Listable(i) =>
                  /\ out = Raise(env.installed[i].status)
                  /\ streams = <<>>
            /\ (Listable(i) /\ MatchesOf(i, inp.fname) = {}) =>
                  /\ out = Raise("OSError")
                  /\ streams = <<>>
            /\ (Listable(i) /\ MatchesOf(i, inp.fname) # {}) =>
                  /\ out.kind = "return"
                  /\ out.pkg = env.installed[i].name
                  /\ out.path = FirstMatchOf(i, inp.fname)
                  /\ streams = <<out>>

\* A call naming a submodule of a package that holds several matches, the
\* first of them not being the first file of the package.
C5_Witness ==
    /\ Completed("open_resource")
    /\ Truthy(inp.module_name)
    /\ \E k \in 1..Len(inp.module_name.v) : inp.module_name.v[k] = "."
    /\ Listable(PackageOf(inp.module_name.v))
    /\ Cardinality(MatchesOf(PackageOf(inp.module_name.v), inp.fname)) >= 2
    /\ 1 \notin MatchesOf(PackageOf(inp.module_name.v), inp.fname)
    /\ out.kind = "return"

\* The modules the search may try, and those that hold the file.
Candidates ==
    {i \in 1..Len(env.installed) :
        \/ Contains(<<"r", "e", "g", "i", "c", "e">>, env.installed[i].name)
        \/ Contains(<<"R", "e", "g", "i", "c", "e">>, env.installed[i].name)}

Holders(fname) ==
    {i \in Candidates : Listable(i) /\ MatchesOf(i, fname) # {}}

\* s lists, in increasing order of position, the names of the modules of
\* the set.
NamesInOrder(s, set) ==
    /\ Len(s) = Cardinality(set)
    /\ \A k \in 1..Len(s) :
          \E i \in set :
              /\ s[k] = env.installed[i].name
              /\ Cardinality({j \in set : j < i}) = k - 1

\* C6: open_resource without a module name tries, in iter_modules order,
\* only modules whose name contains 'regice' or 'Regice'; a candidate that
\* fails with OSError or DistributionNotFound is skipped; the result is the
\* stream of the first candidate that holds the file, and no later candidate
\* is tried; without such a candidate the call fails with OSError.
C6_SearchRegiceModules ==
    (Completed("open_resource") /\ ~Truthy(inp.module_name)) =>
        /\ Holders(inp.fname) = {} =>
              /\ out = Raise("OSError")
              /\ streams = <<>>
              /\ NamesInOrder(tried, Candidates)
        /\ Holders(inp.fname) # {} =>
              \E h \in Holders(inp.fname) :
                  /\ \A i \in Holders(inp.fname) : h <= i
                  /\ out.kind = "return"
                  /\ out.pkg = env.installed[h].name
                  /\ out.path = FirstMatchOf(h, inp.fname)
                  /\ streams = <<out>>
                  /\ NamesInOrder(tried, {i \in Candidates : i <= h})

\* A search that passed over a module that is no candidate, skipped a
\* candidate without a distribution and returned the stream of the next.
C6_Witness ==
    /\ Completed("open_resource")
    /\ ~inp.module_name.some
    /\ Len(env.installed) = 3
    /\ 1 \notin Candidates
    /\ env.installed[2].status = "DistributionNotFound"
    /\ Len(tried) = 2
    /\ out.kind = "return"

\* C7: the only I/O error load_svd lets out is FileNotFoundError: a failure
\* to read an existing path, a name that is no path and that no regice-like
\* module holds, and an I/O failure of parse() all end in FileNotFoundError,
\* and no model is returned.
C7_FileNotFoundOnly ==
    Completed("load_svd") =>
        /\ (out.kind = "raise" /\ IsOSError(out.exc)) =>
              out.exc = "FileNotFoundError"
        /\ (\/ env.disk \notin {"absent", "ok"}
            \/ env.disk = "absent" /\ Holders(inp.file) = {}
            \/ env.parse = "OSError")
              => out = RaiseSvd("FileNotFoundError")
        /\ (env.disk = "absent" /\ Holders(inp.file) # {} /\ env.parse = "ok")
              => out.kind = "return" /\ out.from = "resource"
        /\ (env.disk = "ok" /\ env.parse = "ok")
              => out.kind = "return" /\ out.from = "path"

\* A load of a name that is no path, with a regice-like module installed
\* that does not hold it.
C7_Witness ==
    /\ Completed("load_svd")
    /\ env.disk = "absent"
    /\ env.parse = "ok"
    /\ \E i \in Candidates : Listable(i) /\ FilesOf(i) # <<>>
    /\ Holders(inp.file) = {}
    /\ out = RaiseSvd("FileNotFoundError")

\* The clients of the flags that are set, in the order openocd, jlink, test.
ClientsOf(a) ==
    (IF a.openocd THEN <<"RegiceOpenOCD">> ELSE <<>>)
    \o (IF a.jlink THEN <<"RegiceJLink">> ELSE <<>>)
    \o (IF a.test THEN <<"RegiceClientTest">> ELSE <<>>)

\* C10: init_regice constructs the client of every set flag in the order
\* openocd, jlink, test, and the client given to Regice is the last one
\* constructed; with no flag set no client is bound and the call fails.
C10_LastFlagWins ==
    Completed("init_regice") =>
        /\ clients = ClientsOf(inp.args)
        /\ out.kind = "return" =>
              /\ clients # <<>>
              /\ out.client = clients[Len(clients)]
        /\ clients = <<>> => out.kind = "raise"
        /\ (clients # <<>> /\ load_svd(env.installed, env.disk, env.parse,
                                       inp.args.svd).ret.kind = "return")
              => out.kind = "return"

\* A call with the three flags set: three clients are constructed and
\* Regice gets the test client.
C10_Witness ==
    /\ Completed("init_regice")
    /\ inp.args.openocd /\ inp.args.jlink /\ inp.args.test
    /\ Len(clients) = 3
    /\ out.kind = "return"
    /\ out.client = "RegiceClientTest"

\* The process_args hooks of the libregice package.
LibregiceHooks ==
    {i \in 1..Len(env.eps) :
        /\ env.eps[i].name = "process_args"
        /\ IsFirstSegment(libregice, env.eps[i].module_name)}

\* C9: process_arguments without a device runs the process_args hooks of
\* libregice before the hook of any other module, and the device it returns
\* is the 'device' entry of the result of the libregice hook.
C9_LibregiceFirst ==
    (Completed("process_arguments") /\ inp.device = NoDevice
        /\ out.kind = "return") =>
        /\ LibregiceHooks # {}
        /\ \A k \in 1..Len(called) :
              k <= Cardinality(LibregiceHooks) => called[k] \in LibregiceHooks
        /\ \A n \in LibregiceHooks :
              \E k \in 1..Cardinality(LibregiceHooks) : called[k] = n
        /\ \E n \in LibregiceHooks :
              /\ "device" \in DOMAIN env.eps[n].result
              /\ out.device = env.eps[n].result["device"]
              /\ \A m \in LibregiceHooks :
                    (m > n) => "device" \notin DOMAIN env.eps[m].result

\* A call without a device where the hook of another module is enumerated
\* first and offers a device of its own.
C9_Witness ==
    /\ Completed("process_arguments")
    /\ inp.device = NoDevice
    /\ out.kind = "return"
    /\ 1 \notin LibregiceHooks
    /\ env.eps[1].name = "process_args"
    /\ "device" \in DOMAIN env.eps[1].result
    /\ InList(1, called)
    /\ out.device # env.eps[1].result["device"]

====
